---- MODULE Spec2Model ----
(***************************************************************************)
(* A model of deploy_static_websites/index.js: the S3Uploader class and    *)
(* the command line entry point main().                                    *)
(*                                                                         *)
(* JavaScript strings that the program inspects (file names, the s3-path,  *)
(* remote keys, the monitor-progress argument) are tuples of one-character *)
(* strings, so that extname, toLowerCase, endsWith and the template        *)
(* literals are computed character by character.  Strings the program only *)
(* passes along (the Cache-Control values, statuses) are TLA+ strings.     *)
(***************************************************************************)
EXTENDS Integers, Sequences, FiniteSets, TLC

(***************************************************************************)
(* Bounds of the model.                                                    *)
(***************************************************************************)
\* the largest number of regular files in a modelled dist directory
MaxFiles == 3
\* the largest number of objects in the bucket before the run
MaxStale == 3
\* the number of keys one ListObjectsV2 page holds
PageSize == 2
\* the largest number of regular files in dist, and of objects in the
\* bucket before the run, in a run that polls the invalidation status
\* (each such run has up to 30 status checks)
MaxPolledFiles == 1

(***************************************************************************)
(* Characters and strings.                                                 *)
(***************************************************************************)
\* the characters the modelled names use, in ascending code-point order
Alphabet ==
  << " ", "*", ",", ".", "/", "A", "E", "F", "H", "L", "M", "P", "S", "T",
     "_", "a", "b", "c", "d", "e", "f", "g", "h", "i", "j", "l", "m", "n",
     "o", "p", "q", "r", "s", "t", "u", "x", "y", "z" >>

CodeOf(c) == CHOOSE i \in 1..Len(Alphabet) : Alphabet[i] = c

UpperCase == << "A", "E", "F", "H", "L", "M", "P", "S", "T" >>
LowerCase == << "a", "e", "f", "h", "l", "m", "p", "s", "t" >>

\* String.prototype.toLowerCase, one character
LowerChar(c) ==
  IF \E i \in 1..Len(UpperCase) : UpperCase[i] = c
  THEN LowerCase[CHOOSE i \in 1..Len(UpperCase) : UpperCase[i] = c]
  ELSE c

\* String.prototype.toLowerCase
toLowerCase(s) == [i \in 1..Len(s) |-> LowerChar(s[i])]

\* String.prototype.endsWith
endsWith(s, suffix) ==
  /\ Len(suffix) <= Len(s)
  /\ SubSeq(s, Len(s) - Len(suffix) + 1, Len(s)) = suffix

\* String.prototype.startsWith: how S3 matches a key against Prefix
startsWith(s, prefix) ==
  /\ Len(prefix) <= Len(s)
  /\ SubSeq(s, 1, Len(prefix)) = prefix

\* the order S3 lists keys in: binary order of the characters
StrLess(a, b) ==
  \E i \in 1..(Len(a) + 1) :
    /\ i <= Len(b)
    /\ \A j \in 1..(i - 1) : a[j] = b[j]
    /\ (i = Len(a) + 1 \/ CodeOf(a[i]) < CodeOf(b[i]))

Slash == << "/" >>

\* the names and words of the program
S_astro == << "_", "a", "s", "t", "r", "o" >>
S_category == << "c", "a", "t", "e", "g", "o", "r", "y" >>
S_dot_html == << ".", "h", "t", "m", "l" >>
S_dot_htm == << ".", "h", "t", "m" >>
S_false == << "f", "a", "l", "s", "e" >>

\* the two Cache-Control values
CC_IMMUTABLE == "public, max-age=31536000, immutable"
CC_NOCACHE == "public, max-age=0, must-revalidate"

(***************************************************************************)
(* Local paths are sequences of names below the dist directory.            *)
(***************************************************************************)
\* path.basename of a local path: its last component
basename(p) == p[Len(p)]

\* path.extname: from the last "." of the base name to its end; empty when
\* there is no "." or the only "." is the first character
extname(p) ==
  LET b == basename(p)
      dots == {i \in 1..Len(b) : b[i] = "."}
      last == IF dots = {} THEN 0 ELSE CHOOSE i \in dots : \A j \in dots : j <= i
  IN IF last <= 1 \/ b = << ".", "." >> THEN << >> ELSE SubSeq(b, last, Len(b))

\* path.join(localPath, item)
join(p, item) == Append(p, item)

(***************************************************************************)
(* S3Uploader: the cache policy.                                           *)
(***************************************************************************)
\* a comparison of the extension that forgets toLowerCase
isHtmlFile_CaseSensitive(filePath) ==
  extname(filePath) = S_dot_html \/ extname(filePath) = S_dot_htm

isHtmlFile(filePath) ==
  LET ext == toLowerCase(extname(filePath))
  IN ext = S_dot_html \/ ext = S_dot_htm

getCacheControlHeader(filePath, isAstroFolder) ==
  IF isAstroFolder THEN CC_IMMUTABLE
  ELSE IF isHtmlFile(filePath) THEN CC_NOCACHE
  ELSE CC_IMMUTABLE

(***************************************************************************)
(* The local file system: an entry is a regular file or a directory with   *)
(* its entries in readdirSync order.  The program only reads it.           *)
(***************************************************************************)
F(name) == [name |-> name, kind |-> "file", items |-> << >>]
D(name, items) == [name |-> name, kind |-> "dir", items |-> items]
NoEntry == [name |-> << >>, kind |-> "none", items |-> << >>]

\* fs.existsSync(path.join(dir, name)); false when dir is not a directory
ExistsIn(dir, name) ==
  /\ dir.kind = "dir"
  /\ \E i \in 1..Len(dir.items) : dir.items[i].name = name

RECURSIVE FileCount(_)
FileCount(e) ==
  IF e.kind = "file" THEN 1
  ELSE IF e.kind = "none" \/ e.items = << >> THEN 0
  ELSE FileCount(Head(e.items)) + FileCount(D(e.name, Tail(e.items)))

\* the template literal `${s3Prefix}/${item}` and its fallback for ''
KeyUnder(s3Prefix, item) ==
  IF s3Prefix # << >> THEN s3Prefix \o Slash \o item ELSE item

\* one uploadFile call: its three arguments
Job(filePath, s3Key, isAstroFolder) ==
  [filePath |-> filePath, s3Key |-> s3Key, isAstroFolder |-> isAstroFolder]

\* uploadDirectory: the uploadFile calls of the walk, in the order made.
\* entry stands for what statSync and readdirSync report about localPath.
RECURSIVE uploadDirectory(_, _, _, _)
RECURSIVE uploadItems(_, _, _, _)
uploadDirectory(entry, localPath, s3Prefix, isAstroFolder) ==
  IF entry.kind = "file"
  THEN << Job(localPath, KeyUnder(s3Prefix, basename(localPath)), isAstroFolder) >>
  ELSE IF entry.kind = "dir"
  THEN uploadItems(entry.items, localPath, s3Prefix, isAstroFolder)
  ELSE << >>

\* the loop with the flag of an item taken from its own name only
uploadItems_NoInherit(items, localPath, s3Prefix, isAstroFolder) ==
  IF items = << >> THEN << >>
  ELSE LET item == Head(items)
           itemPath == join(localPath, item.name)
           newS3Prefix == KeyUnder(s3Prefix, item.name)
           itemIsAstroFolder == item.name = S_astro
       IN (IF item.kind = "dir"
           THEN uploadDirectory(item, itemPath, newS3Prefix, itemIsAstroFolder)
           ELSE << Job(itemPath, newS3Prefix, itemIsAstroFolder) >>)
          \o uploadItems(Tail(items), localPath, s3Prefix, isAstroFolder)

\* the for loop of uploadDirectory over the items of one directory
uploadItems(items, localPath, s3Prefix, isAstroFolder) ==
  IF items = << >> THEN << >>
  ELSE LET item == Head(items)
           itemPath == join(localPath, item.name)
           newS3Prefix == KeyUnder(s3Prefix, item.name)
           itemIsAstroFolder == isAstroFolder \/ item.name = S_astro
       IN (IF item.kind = "dir"
           THEN uploadDirectory(item, itemPath, newS3Prefix, itemIsAstroFolder)
           ELSE << Job(itemPath, newS3Prefix, itemIsAstroFolder) >>)
          \o uploadItems(Tail(items), localPath, s3Prefix, isAstroFolder)

(***************************************************************************)
(* uploadDist: what it reads from the dist directory and the remote names  *)
(* it derives from s3Path.                                                 *)
(***************************************************************************)
\* the entry of dir called name (statSync of path.join(dir, name))
EntryOf(dir, name) ==
  dir.items[CHOOSE i \in 1..Len(dir.items) : dir.items[i].name = name]

astroExistsIn(d) == ExistsIn(d, S_astro)
categoryExistsIn(d) == ExistsIn(d, S_category)

\* the loop over distItems: the names of the regular files of dist
rootFilesOf(d) ==
  LET IsFile(e) == e.kind = "file"
      files == SelectSeq(d.items, IsFile)
  IN [i \in 1..Len(files) |-> files[i].name]

\* the loop over distItems: the directories other than _astro and category
rootFoldersOf(d) ==
  LET IsOther(e) == e.kind = "dir" /\ e.name # S_astro /\ e.name # S_category
      folders == SelectSeq(d.items, IsOther)
  IN [i \in 1..Len(folders) |-> folders[i].name]

\* s3Path.endsWith('/') ? s3Path : `${s3Path}/`
baseS3Prefix(s3Path) ==
  IF endsWith(s3Path, Slash) THEN s3Path ELSE s3Path \o Slash

\* s3Path.endsWith('/') ? `${s3Path}<name>` : `${s3Path}/<name>`
subS3Prefix(s3Path, name) ==
  IF endsWith(s3Path, Slash) THEN s3Path \o name ELSE s3Path \o Slash \o name

PrefixTask(prefix) == [type |-> "prefix", key |-> prefix]
KeyTask(key) == [type |-> "key", key |-> key]

\* the delete phase without its loop over rootFolders
DeletePlan_NoRootFolders(d, s3Path) ==
  LET rootFiles == rootFilesOf(d)
  IN (IF astroExistsIn(d)
      THEN << PrefixTask(subS3Prefix(s3Path, S_astro) \o Slash) >> ELSE << >>)
     \o (IF categoryExistsIn(d)
         THEN << PrefixTask(subS3Prefix(s3Path, S_category) \o Slash) >> ELSE << >>)
     \o [i \in 1..Len(rootFiles) |-> KeyTask(baseS3Prefix(s3Path) \o rootFiles[i])]

\* the delete phase of uploadDist: the prefixes and keys it deletes, in order
DeletePlan(d, s3Path) ==
  LET rootFiles == rootFilesOf(d)
      rootFolders == rootFoldersOf(d)
  IN (IF astroExistsIn(d)
      THEN << PrefixTask(subS3Prefix(s3Path, S_astro) \o Slash) >> ELSE << >>)
     \o (IF categoryExistsIn(d)
         THEN << PrefixTask(subS3Prefix(s3Path, S_category) \o Slash) >> ELSE << >>)
     \o [i \in 1..Len(rootFiles) |-> KeyTask(baseS3Prefix(s3Path) \o rootFiles[i])]
     \o [i \in 1..Len(rootFolders) |->
           PrefixTask(baseS3Prefix(s3Path) \o rootFolders[i] \o Slash)]

RECURSIVE uploadRootFolders(_, _, _)
uploadRootFolders(d, s3Path, folders) ==
  IF folders = << >> THEN << >>
  ELSE uploadDirectory(EntryOf(d, Head(folders)), << Head(folders) >>,
                       baseS3Prefix(s3Path) \o Head(folders), FALSE)
       \o uploadRootFolders(d, s3Path, Tail(folders))

\* the upload phase with the _astro folder uploaded before the root folders
UploadPlan_AstroFirst(d, s3Path) ==
  LET rootFiles == rootFilesOf(d)
  IN [i \in 1..Len(rootFiles) |->
        Job(<< rootFiles[i] >>, baseS3Prefix(s3Path) \o rootFiles[i], FALSE)]
     \o (IF astroExistsIn(d)
         THEN uploadDirectory(EntryOf(d, S_astro), << S_astro >>,
                              subS3Prefix(s3Path, S_astro), TRUE)
         ELSE << >>)
     \o uploadRootFolders(d, s3Path, rootFoldersOf(d))
     \o (IF categoryExistsIn(d)
         THEN uploadDirectory(EntryOf(d, S_category), << S_category >>,
                              subS3Prefix(s3Path, S_category), FALSE)
         ELSE << >>)

\* the upload phase of uploadDist: its uploadFile calls, in order
UploadPlan(d, s3Path) ==
  LET rootFiles == rootFilesOf(d)
  IN [i \in 1..Len(rootFiles) |->
        Job(<< rootFiles[i] >>, baseS3Prefix(s3Path) \o rootFiles[i], FALSE)]
     \o uploadRootFolders(d, s3Path, rootFoldersOf(d))
     \o (IF astroExistsIn(d)
         THEN uploadDirectory(EntryOf(d, S_astro), << S_astro >>,
                              subS3Prefix(s3Path, S_astro), TRUE)
         ELSE << >>)
     \o (IF categoryExistsIn(d)
         THEN uploadDirectory(EntryOf(d, S_category), << S_category >>,
                              subS3Prefix(s3Path, S_category), FALSE)
         ELSE << >>)

(***************************************************************************)
(* The bucket: the objects present, each marked as left by an earlier      *)
(* deployment ("old") or written by this run ("new").                      *)
(***************************************************************************)
Obj(key, ver) == [key |-> key, ver |-> ver]
Keys(b) == {o.key : o \in b}
\* a delete that leaves the object in place
Without_Kept(b, keys) == {o \in b : o.key \notin keys \/ o.ver = "old"}
Without(b, keys) == {o \in b : o.key \notin keys}
PutInto(b, key) == Without(b, {key}) \union {Obj(key, "new")}

RECURSIVE SortKeys(_)
SortKeys(S) ==
  IF S = {} THEN << >>
  ELSE LET m == CHOOSE k \in S : \A j \in S \ {k} : StrLess(k, j)
       IN << m >> \o SortKeys(S \ {m})

\* a listing that never says that more keys remain
ListPage_NoToken(b, prefix, token) ==
  LET rest == SortKeys({k \in Keys(b) : /\ startsWith(k, prefix)
                                        /\ (token = << >> \/ StrLess(token, k))})
      n == IF Len(rest) > PageSize THEN PageSize ELSE Len(rest)
  IN [Contents |-> SubSeq(rest, 1, n), NextContinuationToken |-> << >>]

\* the response to ListObjectsV2: the next PageSize keys under Prefix after
\* the continuation token, and a token when more remain
ListPage(b, prefix, token) ==
  LET rest == SortKeys({k \in Keys(b) : /\ startsWith(k, prefix)
                                        /\ (token = << >> \/ StrLess(token, k))})
      n == IF Len(rest) > PageSize THEN PageSize ELSE Len(rest)
  IN [Contents |-> SubSeq(rest, 1, n),
      NextContinuationToken |-> IF Len(rest) > PageSize THEN rest[n] ELSE << >>]

(***************************************************************************)
(* main: the arguments.                                                    *)
(***************************************************************************)
\* String.prototype.trim, for spaces
RECURSIVE trim(_)
trim(s) ==
  IF s = << >> THEN s
  ELSE IF Head(s) = " " THEN trim(Tail(s))
  ELSE IF s[Len(s)] = " " THEN trim(SubSeq(s, 1, Len(s) - 1))
  ELSE s

\* String.prototype.split(',')
RECURSIVE split(_)
split(s) ==
  LET commas == {i \in 1..Len(s) : s[i] = ","}
  IN IF commas = {} THEN << s >>
     ELSE LET i == CHOOSE c \in commas : \A j \in commas : c <= j
          IN << SubSeq(s, 1, i - 1) >> \o split(SubSeq(s, i + 1, Len(s)))

\* the split without the map over trim
invalidationPathsOf_NoTrim(invalidationPath) == split(invalidationPath)

\* invalidationPath.split(',').map(path => path.trim())
invalidationPathsOf(invalidationPath) ==
  LET parts == split(invalidationPath)
  IN [i \in 1..Len(parts) |-> trim(parts[i])]

\* the i-th positional argument; the empty string stands for undefined
\* where the program only tests it for truthiness
Arg(a, i) == IF Len(a) >= i THEN a[i] ELSE << >>

\* the comparison with 'false' without toLowerCase
monitorProgressOf_CaseSensitive(a) ==
  IF Len(a) < 7 THEN TRUE ELSE a[7] # S_false

\* monitorProgressStr === undefined ? true : toLowerCase() !== 'false'
monitorProgressOf(a) ==
  IF Len(a) < 7 THEN TRUE ELSE toLowerCase(a[7]) # S_false

pollInterval == 10000
maxPollingTime == 300000

(***************************************************************************)
(* The inputs of a run: the command line, the environment, the dist        *)
(* directory and what the bucket holds before the run.                     *)
(***************************************************************************)
N_index == << "i", ".", "h", "t", "m", "l" >>
N_PAGE == << "P", ".", "H", "T", "M" >>
N_js == << "a", ".", "j", "s" >>
N_img == << "i", "m", "g" >>
N_sub == << "s", "u", "b" >>

RootFileParts == { << >>, << F(N_index) >>, << F(S_astro) >> }
OtherParts == { << >>, << D(N_img, << F(N_PAGE) >>) >> }
AstroParts ==
  { << >>,
    << D(S_astro, << F(N_index) >>) >>,
    << D(S_astro, << D(N_sub, << F(N_PAGE) >>), F(N_js) >>) >> }
CategoryParts ==
  { << >>,
    << D(S_category, << >>) >>,
    << D(S_category, << F(N_PAGE) >>) >>,
    << D(S_category, << D(S_astro, << F(N_index) >>), F(N_js) >>) >> }

\* the dist directories: no name twice, at most MaxFiles regular files
DistDirs ==
  { d \in { D(<< "d" >>, r \o o \o a \o c) :
              r \in RootFileParts, o \in OtherParts,
              a \in AstroParts, c \in CategoryParts } :
      /\ \A i, j \in 1..Len(d.items) :
           d.items[i].name = d.items[j].name => i = j
      /\ FileCount(d) <= MaxFiles }

\* dist-path may also name nothing, or a regular file
DistInputs == DistDirs \union { NoEntry, F(<< "d" >>) }

P_s3 == << "s" >>
P_s3slash == << "s", "/" >>
P_inval == << "/", "a", "/", "*", ",", " ", "/", "b" >>

ArgLists ==
  { << << "d" >>, P_s3 >>,
    << << "d" >>, P_s3, << "b" >> >>,
    << << "d" >>, P_s3slash, << "b" >>, << "u" >> >>,
    << << "d" >>, P_s3, << "b" >>, << "u" >>, << "E" >> >>,
    << << "d" >>, P_s3, << "b" >>, << "u" >>, << >>, P_inval >>,
    << << "d" >>, P_s3slash, << "b" >>, << "u" >>, << "E" >>, P_inval >>,
    << << "d" >>, P_s3, << "b" >>, << "u" >>, << "E" >>, P_inval,
       << "F", "A", "L", "S", "E" >> >>,
    << << "d" >>, P_s3, << "b" >>, << "u" >>, << "E" >>, P_inval,
       << "n", "o" >> >> }

\* whether each credential variable is set to a non-empty value
Envs == [AWS_ACCESS_KEY_ID : BOOLEAN, AWS_SECRET_ACCESS_KEY : BOOLEAN]

StaleLetters == << "a", "b", "c", "d", "e", "f" >>
StaleAstroKey(i) ==
  P_s3slash \o S_astro \o Slash \o << StaleLetters[i], ".", "j", "s" >>
StaleExtras ==
  { {},
    { P_s3slash \o N_index, P_s3slash \o N_img \o Slash \o N_js },
    { P_s3slash \o S_category \o Slash \o N_PAGE, P_s3slash \o N_js,
      << "z", "/" >> \o N_js } }

\* the bucket before the run: up to MaxStale objects under the _astro
\* prefix, or one of them and other objects in and out of the s3-path
BucketInputs ==
  { { Obj(k, "old") : k \in { StaleAstroKey(i) : i \in 1..n } } :
      n \in 0..MaxStale }
  \union
  { { Obj(k, "old") : k \in { StaleAstroKey(1) } \union x } : x \in StaleExtras }

(***************************************************************************)
(* The state.                                                              *)
(***************************************************************************)
VARIABLES
  args,               \* process.argv.slice(2)
  env,                \* process.env
  dist,               \* the local directory dist-path names
  bucket,             \* the objects of the bucket
  pc,                 \* where the run is
  exitCode,           \* the argument of process.exit; -1 while running
  error,              \* what uploadDist threw, for the .catch of main
  monitorProgress,    \* main's monitorProgress
  uploadedCount,      \* this.uploadedCount
  failedCount,        \* this.failedCount
  calls,              \* the requests sent so far, in order
  inflight,           \* the put and delete requests awaiting their response
  delTasks,           \* what the delete phase has still to do
  upJobs,             \* the uploadFile calls still to make
  listResponse,       \* deleteObjectsWithPrefix: the page being deleted
  continuationToken,  \* deleteObjectsWithPrefix: continuationToken
  deletedCount,       \* deleteObjectsWithPrefix: deletedCount
  polledTime,         \* monitorInvalidationProgress: polledTime
  monitorResult       \* what monitorInvalidationProgress returned

vars ==
  << args, env, dist, bucket, pc, exitCode, error, monitorProgress,
     uploadedCount, failedCount, calls, inflight, delTasks, upJobs, listResponse,
     continuationToken, deletedCount, polledTime, monitorResult >>

\* a request and its response: the command, the method that sent it, its
\* Key or Prefix, the Cache-Control of a put, the Paths of an invalidation,
\* and the response ("" until it arrives, "error" when the request throws)
Call(op, by, key, cc, paths, res) ==
  [op |-> op, by |-> by, key |-> key, cc |-> cc, paths |-> paths, res |-> res]

\* a request awaiting its response: idx is its place in calls
Pending(op, key, idx) == [op |-> op, key |-> key, idx |-> idx]

\* the response to request idx arrives
Answered(log, idx, res) == [log EXCEPT ![idx].res = res]

NoPage == [Contents |-> << >>, NextContinuationToken |-> << >>]

\* InvalidationBatch.Paths of the create-invalidation command
Paths(paths) == [Quantity |-> Len(paths), Items |-> paths]

s3PathArg == Arg(args, 2)
distributionId == Arg(args, 5)
invalidationPath == Arg(args, 6)

\* whether the run, if it gets that far, monitors the invalidation
PollingRequested(a) ==
  Arg(a, 5) # << >> /\ Arg(a, 6) # << >> /\ monitorProgressOf(a)

Init ==
  /\ args \in ArgLists
  /\ env \in Envs
  /\ dist \in DistInputs
  /\ bucket \in BucketInputs
  /\ PollingRequested(args) =>
       FileCount(dist) <= MaxPolledFiles /\ Cardinality(bucket) <= MaxPolledFiles
  /\ pc = "main"
  /\ exitCode = -1
  /\ error = "none"
  /\ monitorProgress = TRUE
  /\ uploadedCount = 0
  /\ failedCount = 0
  /\ calls = << >>
  /\ inflight = {}
  /\ delTasks = << >>
  /\ upJobs = << >>
  /\ listResponse = NoPage
  /\ continuationToken = << >>
  /\ deletedCount = 0
  /\ polledTime = 0
  /\ monitorResult = "none"

\* process.exit(code)
Exit(code) ==
  /\ pc' = "exited"
  /\ exitCode' = code

(***************************************************************************)
(* main, up to the call of uploadDist.                                     *)
(***************************************************************************)
\* the test with && in place of ||
CredentialsMissing_Both(e) == ~e.AWS_ACCESS_KEY_ID /\ ~e.AWS_SECRET_ACCESS_KEY

\* !process.env.AWS_ACCESS_KEY_ID || !process.env.AWS_SECRET_ACCESS_KEY
CredentialsMissing(e) == ~e.AWS_ACCESS_KEY_ID \/ ~e.AWS_SECRET_ACCESS_KEY

\* a throw inside uploadDist: the promise rejects and main's .catch runs
Throw(e) ==
  /\ pc' = "catch"
  /\ error' = e

Main ==
  /\ pc = "main"
  /\ IF Len(args) < 3
     THEN Exit(1) /\ UNCHANGED monitorProgress
     ELSE /\ monitorProgress' = monitorProgressOf(args)
          /\ IF CredentialsMissing(env)
             THEN Exit(1)
             ELSE pc' = "uploadDist" /\ UNCHANGED exitCode
  /\ UNCHANGED << args, env, dist, error, bucket, uploadedCount, failedCount,
                  calls, inflight, delTasks, upJobs, listResponse,
                  continuationToken, deletedCount, polledTime, monitorResult >>

\* the .catch of main: process.exit(1)
MainCatch ==
  /\ pc = "catch"
  /\ Exit(1)
  /\ UNCHANGED << args, env, dist, error, bucket, monitorProgress,
                  uploadedCount, failedCount, calls, inflight, delTasks,
                  upJobs, listResponse, continuationToken, deletedCount,
                  polledTime, monitorResult >>

(***************************************************************************)
(* uploadDist.                                                             *)
(***************************************************************************)
\* the checks of the dist directory and the split into files and folders
UploadDistValidate ==
  /\ pc = "uploadDist"
  /\ IF dist.kind = "none"
     THEN Throw("Dist folder does not exist") /\ UNCHANGED << delTasks, upJobs >>
     ELSE IF ~astroExistsIn(dist) /\ ~categoryExistsIn(dist)
     THEN Throw("Neither _astro nor category folder found")
          /\ UNCHANGED << delTasks, upJobs >>
     ELSE /\ pc' = "delete"
          /\ delTasks' = DeletePlan(dist, s3PathArg)
          /\ upJobs' = UploadPlan(dist, s3PathArg)
          /\ UNCHANGED error
  /\ UNCHANGED << args, env, dist, bucket, exitCode, monitorProgress,
                  uploadedCount, failedCount, calls, inflight, listResponse,
                  continuationToken, deletedCount, polledTime, monitorResult >>

\* one round of the do-while of deleteObjectsWithPrefix: the list request,
\* its response, and the delete requests of the page, all sent at once
ListObjects ==
  /\ pc = "delete"
  /\ delTasks # << >>
  /\ Head(delTasks).type = "prefix"
  /\ LET prefix == Head(delTasks).key
         page == ListPage(bucket, prefix, continuationToken)
         count == IF continuationToken = << >> THEN 0 ELSE deletedCount
     IN \/ \* the list request fails: caught, logged and rethrown
           /\ calls' = Append(calls,
                Call("list", "deleteObjectsWithPrefix", prefix, "", << >>, "error"))
           /\ Throw("list failed")
           /\ UNCHANGED << inflight, delTasks, listResponse,
                           continuationToken, deletedCount >>
        \/ \* a page with objects
           /\ page.Contents # << >>
           /\ calls' = Append(calls,
                Call("list", "deleteObjectsWithPrefix", prefix, "", << >>, "ok"))
                \o [i \in 1..Len(page.Contents) |->
                      Call("delete", "deleteObjectsWithPrefix", page.Contents[i],
                           "", << >>, "")]
           /\ inflight' = {Pending("delete", page.Contents[i], Len(calls) + 1 + i) :
                              i \in 1..Len(page.Contents)}
           /\ listResponse' = page
           /\ deletedCount' = count
           /\ pc' = "deleting"
           /\ UNCHANGED << error, delTasks, continuationToken >>
        \/ \* a page without objects
           /\ page.Contents = << >>
           /\ calls' = Append(calls,
                Call("list", "deleteObjectsWithPrefix", prefix, "", << >>, "ok"))
           /\ deletedCount' = count
           /\ continuationToken' = page.NextContinuationToken
           /\ IF page.NextContinuationToken # << >>
              THEN UNCHANGED delTasks
              ELSE delTasks' = Tail(delTasks)
           /\ UNCHANGED << error, pc, inflight, listResponse >>
  /\ UNCHANGED << args, env, dist, bucket, exitCode, monitorProgress,
                  uploadedCount, failedCount, upJobs, polledTime,
                  monitorResult >>

\* Promise.allSettled in place of Promise.all: a failed delete is ignored
DeleteObjectDone_Settled ==
  /\ pc = "deleting"
  /\ \E c \in inflight :
       /\ \/ /\ bucket' = Without(bucket, {c.key})
             /\ calls' = Answered(calls, c.idx, "ok")
          \/ /\ calls' = Answered(calls, c.idx, "error")
             /\ UNCHANGED bucket
       /\ inflight' = inflight \ {c}
       /\ IF inflight' = {}
          THEN /\ deletedCount' = deletedCount + Len(listResponse.Contents)
               /\ continuationToken' = listResponse.NextContinuationToken
               /\ pc' = "delete"
               /\ IF listResponse.NextContinuationToken # << >>
                  THEN UNCHANGED delTasks
                  ELSE delTasks' = Tail(delTasks)
          ELSE UNCHANGED << deletedCount, continuationToken, pc, delTasks >>
  /\ UNCHANGED << args, env, dist, error, exitCode, monitorProgress,
                  uploadedCount, failedCount, upJobs, listResponse, polledTime,
                  monitorResult >>

\* one delete of the page answers; Promise.all settles with the last
\* success or the first failure
DeleteObjectDone ==
  /\ pc = "deleting"
  /\ \E c \in inflight :
       \/ /\ bucket' = Without(bucket, {c.key})
          /\ calls' = Answered(calls, c.idx, "ok")
          /\ inflight' = inflight \ {c}
          /\ IF inflight' = {}
             THEN /\ deletedCount' = deletedCount + Len(listResponse.Contents)
                  /\ continuationToken' = listResponse.NextContinuationToken
                  /\ pc' = "delete"
                  /\ IF listResponse.NextContinuationToken # << >>
                     THEN UNCHANGED delTasks
                     ELSE delTasks' = Tail(delTasks)
             ELSE UNCHANGED << deletedCount, continuationToken, pc, delTasks >>
          /\ UNCHANGED error
       \/ \* this delete fails: caught, logged and rethrown; the other
          \* requests of the page are on their way and each may still
          \* take effect
          /\ \E landed \in SUBSET {o.key : o \in inflight \ {c}} :
               bucket' = Without(bucket, landed)
          /\ calls' = Answered(calls, c.idx, "error")
          /\ inflight' = {}
          /\ Throw("delete failed")
          /\ UNCHANGED << deletedCount, continuationToken, delTasks >>
  /\ UNCHANGED << args, env, dist, exitCode, monitorProgress, uploadedCount,
                  failedCount, upJobs, listResponse, polledTime,
                  monitorResult >>

\* the delete request for one root file
DeleteRootFile ==
  /\ pc = "delete"
  /\ delTasks # << >>
  /\ Head(delTasks).type = "key"
  /\ calls' = Append(calls,
       Call("delete", "uploadDist", Head(delTasks).key, "", << >>, ""))
  /\ inflight' = {Pending("delete", Head(delTasks).key, Len(calls) + 1)}
  /\ pc' = "deleteKey"
  /\ UNCHANGED << args, env, dist, error, bucket, exitCode, monitorProgress,
                  uploadedCount, failedCount, delTasks, upJobs, listResponse,
                  continuationToken, deletedCount, polledTime, monitorResult >>

\* the catch block of the root-file delete counting the failure
DeleteRootFileDone_Counted ==
  /\ pc = "deleteKey"
  /\ \/ /\ bucket' = Without(bucket, {Head(delTasks).key})
        /\ calls' = Answered(calls, Len(calls), "ok")
        /\ UNCHANGED failedCount
     \/ /\ calls' = Answered(calls, Len(calls), "error")
        /\ failedCount' = failedCount + 1
        /\ UNCHANGED bucket
  /\ inflight' = {}
  /\ delTasks' = Tail(delTasks)
  /\ pc' = "delete"
  /\ UNCHANGED << args, env, dist, error, exitCode, monitorProgress,
                  uploadedCount, upJobs, listResponse,
                  continuationToken, deletedCount, polledTime, monitorResult >>

\* the root-file delete without its try: an error rejects uploadDist
DeleteRootFileDone_Fatal ==
  /\ pc = "deleteKey"
  /\ \/ /\ bucket' = Without(bucket, {Head(delTasks).key})
        /\ calls' = Answered(calls, Len(calls), "ok")
        /\ delTasks' = Tail(delTasks)
        /\ pc' = "delete"
        /\ UNCHANGED error
     \/ /\ calls' = Answered(calls, Len(calls), "error")
        /\ Throw("delete failed")
        /\ UNCHANGED << bucket, delTasks >>
  /\ inflight' = {}
  /\ UNCHANGED << args, env, dist, exitCode, monitorProgress,
                  uploadedCount, failedCount, upJobs, listResponse,
                  continuationToken, deletedCount, polledTime, monitorResult >>

\* its answer; an error is caught and ignored
DeleteRootFileDone ==
  /\ pc = "deleteKey"
  /\ \/ /\ bucket' = Without(bucket, {Head(delTasks).key})
        /\ calls' = Answered(calls, Len(calls), "ok")
     \/ /\ calls' = Answered(calls, Len(calls), "error")
        /\ UNCHANGED bucket
  /\ inflight' = {}
  /\ delTasks' = Tail(delTasks)
  /\ pc' = "delete"
  /\ UNCHANGED << args, env, dist, error, exitCode, monitorProgress,
                  uploadedCount, failedCount, upJobs, listResponse,
                  continuationToken, deletedCount, polledTime, monitorResult >>

\* the delete phase is over
DeletePhaseDone ==
  /\ pc = "delete"
  /\ delTasks = << >>
  /\ pc' = "upload"
  /\ UNCHANGED << args, env, dist, error, bucket, exitCode, monitorProgress,
                  uploadedCount, failedCount, calls, inflight, delTasks,
                  upJobs, listResponse, continuationToken, deletedCount,
                  polledTime, monitorResult >>

(***************************************************************************)
(* uploadFile, called for the next file of the upload phase.               *)
(***************************************************************************)
\* uploadFile called without await: the put is sent and the loop goes on
UploadFile_NoAwait ==
  /\ pc = "upload"
  /\ upJobs # << >>
  /\ LET job == Head(upJobs)
         cacheControl == getCacheControlHeader(job.filePath, job.isAstroFolder)
     IN /\ calls' = Append(calls,
             Call("put", "uploadFile", job.s3Key, cacheControl, << >>, ""))
        /\ inflight' = inflight \union {Pending("put", job.s3Key, Len(calls) + 1)}
        /\ upJobs' = Tail(upJobs)
  /\ UNCHANGED << args, env, dist, error, bucket, pc, exitCode, monitorProgress,
                  uploadedCount, failedCount, delTasks, listResponse,
                  continuationToken, deletedCount, polledTime, monitorResult >>

\* up to the await: the file is read and the put request sent, or the read
\* throws and the catch block counts the failure
UploadFile ==
  /\ pc = "upload"
  /\ upJobs # << >>
  /\ LET job == Head(upJobs)
         cacheControl == getCacheControlHeader(job.filePath, job.isAstroFolder)
     IN \/ /\ calls' = Append(calls,
                Call("put", "uploadFile", job.s3Key, cacheControl, << >>, ""))
           /\ inflight' = {Pending("put", job.s3Key, Len(calls) + 1)}
           /\ pc' = "putting"
           /\ UNCHANGED << failedCount, upJobs >>
        \/ /\ failedCount' = failedCount + 1
           /\ upJobs' = Tail(upJobs)
           /\ UNCHANGED << calls, inflight, pc >>
  /\ UNCHANGED << args, env, dist, error, bucket, exitCode, monitorProgress,
                  uploadedCount, delTasks, listResponse, continuationToken,
                  deletedCount, polledTime, monitorResult >>

\* uploadFile without its catch block: a failed put rejects uploadDist
UploadFileDone_NoCatch ==
  /\ pc = "putting"
  /\ \/ /\ bucket' = PutInto(bucket, Head(upJobs).s3Key)
        /\ calls' = Answered(calls, Len(calls), "ok")
        /\ uploadedCount' = uploadedCount + 1
        /\ upJobs' = Tail(upJobs)
        /\ pc' = "upload"
        /\ UNCHANGED error
     \/ /\ calls' = Answered(calls, Len(calls), "error")
        /\ Throw("put failed")
        /\ UNCHANGED << bucket, uploadedCount, upJobs >>
  /\ inflight' = {}
  /\ UNCHANGED << args, env, dist, exitCode, monitorProgress, failedCount,
                  delTasks, listResponse, continuationToken, deletedCount,
                  polledTime, monitorResult >>

\* after the await: the put succeeded, or it threw
UploadFileDone ==
  /\ pc = "putting"
  /\ \/ /\ bucket' = PutInto(bucket, Head(upJobs).s3Key)
        /\ calls' = Answered(calls, Len(calls), "ok")
        /\ uploadedCount' = uploadedCount + 1
        /\ UNCHANGED failedCount
     \/ /\ calls' = Answered(calls, Len(calls), "error")
        /\ failedCount' = failedCount + 1
        /\ UNCHANGED << bucket, uploadedCount >>
  /\ inflight' = {}
  /\ upJobs' = Tail(upJobs)
  /\ pc' = "upload"
  /\ UNCHANGED << args, env, dist, error, exitCode, monitorProgress,
                  delTasks, listResponse, continuationToken, deletedCount,
                  polledTime, monitorResult >>

\* the summary is printed and uploadDist returns
UploadDistDone ==
  /\ pc = "upload"
  /\ upJobs = << >>
  /\ pc' = "then"
  /\ UNCHANGED << args, env, dist, error, bucket, exitCode, monitorProgress,
                  uploadedCount, failedCount, calls, inflight, delTasks,
                  upJobs, listResponse, continuationToken, deletedCount,
                  polledTime, monitorResult >>

(***************************************************************************)
(* The .then of main and the invalidation.                                 *)
(***************************************************************************)
MainThen ==
  /\ pc = "then"
  /\ IF distributionId # << >> /\ invalidationPath # << >>
     THEN pc' = "invalidate" /\ UNCHANGED exitCode
     ELSE Exit(0)
  /\ UNCHANGED << args, env, dist, error, bucket, monitorProgress,
                  uploadedCount, failedCount, calls, inflight, delTasks,
                  upJobs, listResponse, continuationToken, deletedCount,
                  polledTime, monitorResult >>

\* what a request to the CDN yields: a status, or the request throwing
Statuses == {"InProgress", "Completed", "Failed", "throw"}

\* main without the try around invalidateCloudFront: the error reaches .catch
MainInvalidationCatch_Uncaught ==
  /\ pc' = "catch"
  /\ UNCHANGED exitCode

\* the catch block of main around invalidateCloudFront, and the
\* process.exit(0) after it
MainInvalidationCatch == Exit(0)

\* invalidateCloudFront up to the monitoring; when it returns main exits
InvalidateCloudFront ==
  /\ pc = "invalidate"
  /\ LET paths == invalidationPathsOf(invalidationPath)
     IN IF distributionId = << >> \/ Len(paths) = 0
        THEN Exit(0) /\ UNCHANGED << calls, polledTime >>
        ELSE \E status \in Statuses :
               /\ calls' = Append(calls,
                    Call("createInvalidation", "invalidateCloudFront", << >>, "",
                         Paths(paths),
                         IF status = "throw" THEN "error" ELSE status))
               /\ IF status = "throw"
                  THEN MainInvalidationCatch /\ UNCHANGED polledTime
                  ELSE IF monitorProgress /\ status # "Completed"
                  THEN /\ pc' = "monitor"
                       /\ polledTime' = 0
                       /\ UNCHANGED exitCode
                  ELSE Exit(0) /\ UNCHANGED polledTime
  /\ UNCHANGED << args, env, dist, error, bucket, monitorProgress,
                  uploadedCount, failedCount, inflight, delTasks, upJobs,
                  listResponse, continuationToken, deletedCount,
                  monitorResult >>

\* the while condition with <= for <
PollAgain_Inclusive(t) == t <= maxPollingTime

\* while (true) in place of the while condition
PollAgain_Always(t) == t >= 0

\* the while condition of monitorInvalidationProgress
PollAgain(t) == t < maxPollingTime

\* the if chain comparing with a misspelt 'Complete'
MonitorOutcome_Misspelt(status) ==
  IF status = "throw" THEN "false"
  ELSE IF status = "Complete" THEN "true"
  ELSE IF status = "InProgress" THEN "continue"
  ELSE "false"

\* the if chain with an unexpected status treated like 'InProgress'
MonitorOutcome_ElseContinue(status) ==
  IF status = "throw" THEN "false"
  ELSE IF status = "Completed" THEN "true"
  ELSE "continue"

\* the if chain on the status of one check: return true, sleep and go on,
\* or return false (also what the catch block returns)
MonitorOutcome(status) ==
  IF status = "throw" THEN "false"
  ELSE IF status = "Completed" THEN "true"
  ELSE IF status = "InProgress" THEN "continue"
  ELSE "false"

\* one status check of monitorInvalidationProgress; when it returns,
\* invalidateCloudFront returns and main exits with 0
MonitorInvalidationProgress ==
  /\ pc = "monitor"
  /\ \E status \in Statuses :
       /\ calls' = Append(calls,
            Call("getInvalidation", "monitorInvalidationProgress", << >>, "",
                 << >>, IF status = "throw" THEN "error" ELSE status))
       /\ IF MonitorOutcome(status) = "continue"
          THEN pc' = "sleep" /\ UNCHANGED << monitorResult, exitCode >>
          ELSE monitorResult' = MonitorOutcome(status) /\ Exit(0)
  /\ UNCHANGED << args, env, dist, error, bucket, monitorProgress,
                  uploadedCount, failedCount, inflight, delTasks, upJobs,
                  listResponse, continuationToken, deletedCount, polledTime >>

\* the sleep is over; the while condition is tested again
MonitorSleep ==
  /\ pc = "sleep"
  /\ polledTime' = polledTime + pollInterval
  /\ IF PollAgain(polledTime')
     THEN pc' = "monitor" /\ UNCHANGED << monitorResult, exitCode >>
     ELSE monitorResult' = "false" /\ Exit(0)
  /\ UNCHANGED << args, env, dist, error, bucket, monitorProgress,
                  uploadedCount, failedCount, calls, inflight, delTasks,
                  upJobs, listResponse, continuationToken, deletedCount >>

Next ==
  \/ Main
  \/ MainCatch
  \/ UploadDistValidate
  \/ ListObjects
  \/ DeleteObjectDone
  \/ DeleteRootFile
  \/ DeleteRootFileDone
  \/ DeletePhaseDone
  \/ UploadFile
  \/ UploadFileDone
  \/ UploadDistDone
  \/ MainThen
  \/ InvalidateCloudFront
  \/ MonitorInvalidationProgress
  \/ MonitorSleep

Spec == Init /\ [][Next]_vars

\* the runs that monitor the invalidation by default (no monitor-progress
\* argument), with every request answered and every timer firing: the
\* single thread of control always takes its next step
MonitoredInit ==
  /\ Init
  /\ Len(args) = 6
  /\ PollingRequested(args)
  /\ ~CredentialsMissing(env)
FairSpec == MonitoredInit /\ [][Next]_vars /\ WF_vars(Next)

(***************************************************************************)
(* Properties.                                                             *)
(***************************************************************************)
\* the requests of one kind, in the order sent
CallsOf(op) == LET Is(c) == c.op = op IN SelectSeq(calls, Is)

\* uploadFile has sent its put and awaits the answer: the file is that of
\* Head(upJobs) and the request is the last of calls
PutSent == pc = "putting"
SentJob == Head(upJobs)
SentCall == calls[Len(calls)]

\* the extension, compared without regard to case
HasHtmlExtension(p) ==
  toLowerCase(extname(p)) \in { S_dot_html, S_dot_htm }

\* some folder on the way to the file is called _astro
BelowAstro(p) == \E i \in 1..(Len(p) - 1) : p[i] = S_astro

\* C1 as stated: every file with extension .html or .htm (in any letter
\* case) is sent with the no-cache Cache-Control, whatever its folder.
C1_AsStated ==
  PutSent /\ HasHtmlExtension(SentJob.filePath) => SentCall.cc = CC_NOCACHE

\* C1, amended: every file with extension .html or .htm (in any letter
\* case) that is not below a folder named _astro is sent with the no-cache
\* Cache-Control, whatever its folder.
C1_HtmlOutsideAstroNoCache ==
  PutSent /\ HasHtmlExtension(SentJob.filePath) /\ ~BelowAstro(SentJob.filePath)
    => SentCall.cc = CC_NOCACHE

\* an upper-case .HTM in the category folder is sent with no-cache
C1_Witness ==
  /\ PutSent
  /\ SentJob.filePath = << S_category, N_PAGE >>
  /\ SentCall.cc = CC_NOCACHE

\* C2: every file below a folder named _astro, at any depth, is sent with
\* the immutable Cache-Control even when its extension is .html or .htm,
\* and every uploadFile call of the walk for such a file carries the flag.
C2_BelowAstroImmutable ==
  /\ \A i \in 1..Len(upJobs) :
       BelowAstro(upJobs[i].filePath) => upJobs[i].isAstroFolder
  /\ PutSent /\ BelowAstro(SentJob.filePath) => SentCall.cc = CC_IMMUTABLE

\* an .HTM file two levels below _astro is sent as immutable
C2_Witness ==
  /\ PutSent
  /\ SentJob.filePath = << S_astro, N_sub, N_PAGE >>
  /\ HasHtmlExtension(SentJob.filePath)
  /\ SentCall.cc = CC_IMMUTABLE

\* dist is no directory, or holds no directory called _astro or category
NoKnownSubfolder(d) ==
  \/ d.kind # "dir"
  \/ \A i \in 1..Len(d.items) :
       ~(d.items[i].kind = "dir" /\ d.items[i].name \in { S_astro, S_category })

\* C3: when dist holds neither the _astro nor the category subfolder (or
\* does not exist), the run sends no request at all and exits with 1.
C3_NoSubfolderNoRequest ==
  NoKnownSubfolder(dist) =>
    /\ calls = << >>
    /\ inflight = {}
    /\ pc \in { "main", "uploadDist", "catch", "exited" }
    /\ pc = "exited" => exitCode = 1

\* the regular files of a directory tree, as paths below it
RECURSIVE FilePaths(_, _)
FilePaths(e, path) ==
  IF e.kind = "file" THEN { path }
  ELSE IF e.kind = "dir"
  THEN UNION { FilePaths(e.items[i], Append(path, e.items[i].name)) :
                 i \in 1..Len(e.items) }
  ELSE {}

\* a path below dist written with "/" between its names
RECURSIVE RelativePath(_)
RelativePath(p) ==
  IF Len(p) = 1 THEN p[1] ELSE p[1] \o Slash \o RelativePath(Tail(p))

\* s3-path without the "/" it may end with
WithoutTrailingSlash(s) ==
  IF s # << >> /\ s[Len(s)] = "/" THEN SubSeq(s, 1, Len(s) - 1) ELSE s

\* C4: when uploadDist returns (so no deletion failed) after sending a put
\* for every file it read, it has sent exactly one put per regular file of
\* dist, each with the key <s3-path>/<path relative to dist>.
C4_OnePutPerFile ==
  LET puts == CallsOf("put")
  IN pc = "then" /\ Len(puts) = uploadedCount + failedCount =>
       /\ Len(puts) = FileCount(dist)
       /\ \A i, j \in 1..Len(puts) : puts[i].key = puts[j].key => i = j
       /\ { puts[i].key : i \in 1..Len(puts) }
            = { WithoutTrailingSlash(s3PathArg) \o Slash \o RelativePath(f) :
                  f \in FilePaths(dist, << >>) }

\* the status checks sent so far, and timeout / interval
Checks == CallsOf("getInvalidation")
MaxChecks == maxPollingTime \div pollInterval
AllInProgress(g) == \A i \in 1..Len(g) : g[i].res = "InProgress"
Polling == pc \in { "monitor", "sleep" } /\ monitorResult = "none"

\* C5: after k answers 'InProgress', k up to 29, the next status check is
\* still made; a check answered 'Completed' is the last one and
\* monitorInvalidationProgress returns true: k times 'InProgress' and then
\* 'Completed' is k+1 checks and success.
C5_CompletedAfterKChecks ==
  LET g == Checks
  IN /\ \A i \in 1..Len(g) :
          g[i].res = "Completed" =>
            /\ i = Len(g)
            /\ monitorResult = "true"
            /\ pc = "exited"
     /\ g # << >> /\ AllInProgress(g) /\ Len(g) < MaxChecks => Polling

\* 'InProgress' twice and 'Completed' on the third check: success
C5_Witness ==
  /\ Len(Checks) = 3
  /\ Checks[1].res = "InProgress"
  /\ Checks[2].res = "InProgress"
  /\ Checks[3].res = "Completed"
  /\ monitorResult = "true"

\* C6: when every status check answers 'InProgress',
\* monitorInvalidationProgress makes exactly timeout / interval = 30
\* checks, then returns false, and no check follows.
C6_TimeoutAfterMaxChecks ==
  LET g == Checks
  IN g # << >> /\ AllInProgress(g) =>
       /\ Len(g) <= MaxChecks
       /\ Len(g) < MaxChecks => Polling
       /\ Len(g) = MaxChecks =>
            \/ pc = "sleep" /\ monitorResult = "none"
            \/ pc = "exited" /\ monitorResult = "false"

\* thirty checks, all 'InProgress', and the monitor has returned false
C6_Witness ==
  /\ MaxChecks = 30
  /\ Len(Checks) = MaxChecks
  /\ AllInProgress(Checks)
  /\ monitorResult = "false"
  /\ pc = "exited"

\* where the run is once uploadDist has returned
AfterUploadDist == { "then", "invalidate", "monitor", "sleep" }

\* C7: once uploadDist has returned, whatever the invalidation does
\* (create-invalidation throwing, a status check throwing, an unexpected
\* status, a polling timeout, completion), the run can only go on to
\* exit with 0.
C7_ExitZeroAfterUpload ==
  [][(pc \in AfterUploadDist) =>
       ((pc' \in AfterUploadDist /\ exitCode' = -1)
          \/ (pc' = "exited" /\ exitCode' = 0))]_vars

\* create-invalidation threw and the run exited with 0
C7_Witness ==
  /\ pc = "exited"
  /\ exitCode = 0
  /\ calls # << >>
  /\ calls[Len(calls)].op = "createInvalidation"
  /\ calls[Len(calls)].res = "error"

\* C8: with fewer than 3 arguments, or with either credential variable
\* missing, the run sends no request and exits with 1.
C8_UsageOrCredentialsExit ==
  Len(args) < 3 \/ ~env.AWS_ACCESS_KEY_ID \/ ~env.AWS_SECRET_ACCESS_KEY =>
    /\ calls = << >>
    /\ inflight = {}
    /\ pc \in { "main", "exited" }
    /\ pc = "exited" => exitCode = 1

\* enough arguments, the access key set, the secret missing: exit 1
C8_Witness ==
  /\ Len(args) >= 3
  /\ env.AWS_ACCESS_KEY_ID
  /\ ~env.AWS_SECRET_ACCESS_KEY
  /\ pc = "exited"
  /\ exitCode = 1
  /\ calls = << >>

\* the upload phase has begun
UploadBegun == pc \in { "upload", "putting" } \union AfterUploadDist \/ exitCode = 0

\* C9: a failed upload does not abort the run and is not retried: a run
\* with a failed put or a counted failure is never in the .catch of main
\* nor exits with 1; no key is put twice; each uploadFile call that has
\* finished has raised exactly one counter, uploadedCount for the puts
\* that succeeded; and during the upload phase and when uploadDist
\* returns, the files counted and the files still to send add up to the
\* files of the walk.
C9_UploadFailureCounted ==
  LET puts == { i \in 1..Len(calls) : calls[i].op = "put" }
      plan == UploadPlan(dist, s3PathArg)
      ok == { i \in puts : calls[i].res = "ok" }
      failed == { i \in puts : calls[i].res = "error" }
  IN /\ pc = "catch" \/ exitCode = 1 => failed = {} /\ failedCount = 0
     /\ UploadBegun =>
          /\ \A i, j \in puts : calls[i].key = calls[j].key => i = j
          /\ uploadedCount = Cardinality(ok)
          /\ failedCount >= Cardinality(failed)
          /\ pc \in { "upload", "putting", "then" } =>
               uploadedCount + failedCount + Len(upJobs) = Len(plan)
          /\ pc \notin { "upload", "putting" } => upJobs = << >>

\* the first put failed, the second file was still uploaded, and the
\* summary shows one of each
C9_Witness ==
  LET puts == CallsOf("put")
  IN /\ pc = "then"
     /\ Len(puts) = 2
     /\ puts[1].res = "error"
     /\ puts[2].res = "ok"
     /\ uploadedCount = 1
     /\ failedCount = 1

\* a request of deleteObjectsWithPrefix has failed
PrefixDeletionFailed ==
  \E i \in 1..Len(calls) :
    calls[i].by = "deleteObjectsWithPrefix" /\ calls[i].res = "error"

\* C10: a failed list or a failed delete of a page is fatal: the run is in
\* the .catch of main or has exited with 1, the last list request is the
\* one of the failing prefix and only the deletes of its page follow it,
\* the prefixes after it are untouched, and no put, create-invalidation or
\* status check is ever sent.
C10_PrefixDeletionFatal ==
  PrefixDeletionFailed =>
    LET lists == { i \in 1..Len(calls) : calls[i].op = "list" }
        last == CHOOSE i \in lists : \A j \in lists : j <= i
    IN /\ pc \in { "catch", "exited" }
       /\ pc = "catch" => exitCode = -1
       /\ pc = "exited" => exitCode = 1
       /\ error \in { "list failed", "delete failed" }
       /\ \A i \in 1..Len(calls) : calls[i].op \in { "list", "delete" }
       /\ delTasks # << >>
       /\ calls[last].key = Head(delTasks).key
       /\ calls[last].res = "error" => last = Len(calls)
       /\ calls[last].res = "ok" =>
            /\ Len(calls) - last = Len(listResponse.Contents)
            /\ \A i \in (last + 1)..Len(calls) :
                 calls[i].key = listResponse.Contents[i - last]

\* a delete of the first page failed; the run exited with 1 and another
\* prefix was still to be deleted
C10_Witness ==
  /\ error = "delete failed"
  /\ pc = "exited"
  /\ exitCode = 1
  /\ Len(delTasks) > 1
  /\ \E i \in 1..Len(calls) : calls[i].op = "delete" /\ calls[i].res = "error"

\* the s3-path with the "/" that separates it from the names below it
Root == WithoutTrailingSlash(s3PathArg) \o Slash
UnderS3Path(key) == startsWith(key, Root)

\* the remote counterparts of what dist holds at its top: the prefix of
\* each folder (of _astro and category when the name exists at all) and the
\* key of each regular file
LocalPrefixes ==
  { Root \o dist.items[i].name \o Slash :
      i \in { j \in 1..Len(dist.items) :
                \/ dist.items[j].kind = "dir"
                \/ dist.items[j].name \in { S_astro, S_category } } }
LocalRootKeys ==
  { Root \o dist.items[i].name :
      i \in { j \in 1..Len(dist.items) : dist.items[j].kind = "file" } }
HasLocalCounterpart(key) ==
  \/ key \in LocalRootKeys
  \/ \E p \in LocalPrefixes : startsWith(key, p)

\* no list, delete or put request of the run has failed and every file
\* was read
NoFailure ==
  /\ failedCount = 0
  /\ \A i \in 1..Len(calls) : calls[i].res # "error"

\* C11 as stated: after a run of uploadDist with no failures every object
\* under s3-path is one that this run uploaded.
C11_AsStated ==
  pc = "then" /\ NoFailure =>
    \A o \in bucket : UnderS3Path(o.key) => o.ver = "new"

\* C11, amended: after a run of uploadDist with no failures every object
\* under the remote prefix of a top-level folder of dist, or at the key of
\* a top-level file of dist, is one that this run uploaded; and the delete
\* phase has sent no request for a key or prefix without such a
\* counterpart, so what an earlier deployment left elsewhere under
\* s3-path remains.
C11_LocalCounterpartsReplaced ==
  pc = "then" /\ NoFailure =>
    /\ \A o \in bucket : HasLocalCounterpart(o.key) => o.ver = "new"
    /\ \A i \in 1..Len(calls) :
         /\ calls[i].op = "list" => calls[i].key \in LocalPrefixes
         /\ calls[i].op = "delete" => HasLocalCounterpart(calls[i].key)

\* stale objects of the img folder were deleted, the folder was uploaded
\* anew, and a stale root file without local counterpart is still there
C11_Witness ==
  /\ pc = "then"
  /\ NoFailure
  /\ \E i \in 1..Len(calls) :
       /\ calls[i].op = "delete"
       /\ calls[i].by = "deleteObjectsWithPrefix"
       /\ calls[i].key = Root \o N_img \o Slash \o N_js
  /\ Obj(Root \o N_img \o Slash \o N_PAGE, "new") \in bucket
  /\ \E o \in bucket : UnderS3Path(o.key) /\ o.ver = "old"

\* the create-invalidation requests, as places in the log
Creates == { i \in 1..Len(calls) : calls[i].op = "createInvalidation" }

\* C12: at most one create-invalidation request is sent per run; it is
\* sent only when a distribution id and an invalidation path were given
\* and only after uploadDist has returned without a fatal error (every
\* list, delete and put request precedes it and is answered, no prefix
\* deletion failed, nothing is left to delete or upload); its Items are
\* the parts of the argument between the commas, each without spaces at
\* its ends, and its Quantity is their number.
C12_OneInvalidationAfterUpload ==
  /\ Cardinality(Creates) <= 1
  /\ \A i \in Creates :
       /\ distributionId # << >>
       /\ invalidationPath # << >>
       /\ pc \in { "monitor", "sleep", "exited" }
       /\ exitCode \in { -1, 0 }
       /\ error = "none"
       /\ ~PrefixDeletionFailed
       /\ delTasks = << >> /\ upJobs = << >> /\ inflight = {}
       /\ \A j \in 1..(i - 1) :
            calls[j].op \in { "list", "delete", "put" } /\ calls[j].res # ""
       /\ \A j \in (i + 1)..Len(calls) : calls[j].op = "getInvalidation"
       /\ LET items == calls[i].paths.Items
              commas == Cardinality({ k \in 1..Len(invalidationPath) :
                                       invalidationPath[k] = "," })
          IN /\ calls[i].paths.Quantity = Len(items)
             /\ Len(items) = commas + 1
             /\ \A k \in 1..Len(items) :
                  /\ \A n \in 1..Len(items[k]) : items[k][n] # ","
                  /\ items[k] # << >> =>
                       items[k][1] # " " /\ items[k][Len(items[k])] # " "
             /\ invalidationPath = P_inval =>
                  items = << << "/", "a", "/", "*" >>, << "/", "b" >> >>

\* the argument "/a/*, /b" was sent as the two paths /a/* and /b
C12_Witness ==
  /\ pc = "exited"
  /\ exitCode = 0
  /\ \E i \in Creates :
       /\ calls[i].paths.Quantity = 2
       /\ calls[i].paths.Items = << << "/", "a", "/", "*" >>, << "/", "b" >> >>
       /\ calls[i].res = "InProgress"

\* the place of a key in the order of the upload phase: 1 for a root-level
\* file, 2 for a file of another root folder, 3 below _astro, 4 below
\* category
UploadRank(key) ==
  LET rest == SubSeq(key, Len(Root) + 1, Len(key))
  IN IF \A n \in 1..Len(rest) : rest[n] # "/" THEN 1
     ELSE IF startsWith(rest, S_astro \o Slash) THEN 3
     ELSE IF startsWith(rest, S_category \o Slash) THEN 4
     ELSE 2

\* the keys of the puts sent so far followed by the keys of the uploadFile
\* calls still to come
UploadOrder ==
  LET puts == CallsOf("put")
      rest == IF pc = "putting" THEN Tail(upJobs) ELSE upJobs
  IN [i \in 1..Len(puts) |-> puts[i].key]
       \o [i \in 1..Len(rest) |-> rest[i].s3Key]

\* C13: no list or delete request is sent after the first put request,
\* and the uploads are made in the order root-level files, other root
\* folders, _astro, category.
C13_DeleteBeforeUploadInOrder ==
  /\ LET puts == { i \in 1..Len(calls) : calls[i].op = "put" }
     IN \A j \in 1..Len(calls) :
          calls[j].op \in { "list", "delete" } => \A i \in puts : j < i
  /\ pc \in { "delete", "deleting", "deleteKey", "upload", "putting", "then" } =>
       LET o == UploadOrder
       IN /\ \A i \in 1..Len(o) : UnderS3Path(o[i])
          /\ \A i \in 1..(Len(o) - 1) : UploadRank(o[i]) <= UploadRank(o[i + 1])

\* a root file, a file of the img folder and a file of _astro were put in
\* this order, after the deletes
C13_Witness ==
  LET puts == CallsOf("put")
  IN /\ pc = "then"
     /\ Len(puts) = 3
     /\ puts[1].key = Root \o N_index
     /\ puts[2].key = Root \o N_img \o Slash \o N_PAGE
     /\ puts[3].key = Root \o S_astro \o Slash \o N_index
     /\ calls[1].op = "list"
     /\ \E i \in 1..Len(calls) : calls[i].op = "delete" /\ calls[i].res = "ok"

\* C14: the first status check answered with a status other than
\* 'Completed' and 'InProgress' is the last request of the run:
\* monitorInvalidationProgress returns false at once, with no sleep after
\* that check (polledTime counts the sleeps of the 'InProgress' answers
\* before it only) and no further check.
C14_UnexpectedStatusEndsPolling ==
  LET g == Checks
  IN \A i \in 1..Len(g) :
       g[i].res \notin { "Completed", "InProgress", "error" } =>
         /\ i = Len(g)
         /\ calls[Len(calls)] = g[i]
         /\ \A j \in 1..(i - 1) : g[j].res = "InProgress"
         /\ monitorResult = "false"
         /\ pc = "exited"
         /\ polledTime = (i - 1) * pollInterval

\* 'InProgress' twice, then 'Failed': two sleeps, three checks, false
C14_Witness ==
  /\ Len(Checks) = 3
  /\ Checks[1].res = "InProgress"
  /\ Checks[2].res = "InProgress"
  /\ Checks[3].res = "Failed"
  /\ polledTime = 2 * pollInterval
  /\ monitorResult = "false"
  /\ pc = "exited"

\* C15: whatever the status checks answer, monitorInvalidationProgress
\* sends at most 30 of them and returns: once the first check is due the
\* run reaches its exit with the monitor's result true or false; a check
\* that throws is the last request, and the monitor returns false for it
\* (the run exits with 0, not through the .catch of main).
C15_MonitorTerminates ==
  /\ [](Len(Checks) <= MaxChecks)
  /\ [](\A i \in 1..Len(calls) :
          calls[i].op = "getInvalidation" /\ calls[i].res = "error" =>
            /\ i = Len(calls)
            /\ monitorResult = "false"
            /\ pc = "exited"
            /\ exitCode = 0)
  /\ (pc = "monitor") ~>
       (pc = "exited" /\ exitCode = 0 /\ monitorResult \in { "true", "false" })

\* the fourth status check threw after three 'InProgress' answers and the
\* monitor returned false
C15_Witness ==
  /\ Len(Checks) = 4
  /\ \A i \in 1..3 : Checks[i].res = "InProgress"
  /\ Checks[4].res = "error"
  /\ monitorResult = "false"
  /\ pc = "exited"
  /\ exitCode = 0

\* the list requests sent so far, as places in the log, and the last one
Lists == { i \in 1..Len(calls) : calls[i].op = "list" }
LastList == CHOOSE i \in Lists : \A j \in Lists : j <= i

\* the delete requests that deleteObjectsWithPrefix has sent for keys
\* under a prefix, and its list requests for that prefix
PrefixDeletes(prefix) ==
  { i \in 1..Len(calls) :
      /\ calls[i].op = "delete"
      /\ calls[i].by = "deleteObjectsWithPrefix"
      /\ startsWith(calls[i].key, prefix) }
PrefixLists(prefix) == { i \in Lists : calls[i].key = prefix }

\* the pages a listing of n keys takes
PagesFor(n) == IF n = 0 THEN 1 ELSE (n + PageSize - 1) \div PageSize

\* C16: while no request of deleteObjectsWithPrefix has failed: a list
\* request is sent only when every earlier request is answered; the
\* requests after the list request of a page are one delete for each
\* object of the page; and when the call has returned (no continuation
\* token is held) it has listed to the end: no object that was there
\* before the run is left under the prefix, deletedCount is the number of
\* delete requests sent for the prefix, none twice, and the list requests
\* are as many as the pages these objects fill.
C16_PagesListedAndDeleted ==
  pc \in { "delete", "deleting", "deleteKey", "upload" } /\ Lists # {}
    /\ ~PrefixDeletionFailed =>
    LET last == LastList
        prefix == calls[last].key
        page == listResponse.Contents
        dels == PrefixDeletes(prefix)
    IN /\ \A i \in Lists : \A j \in 1..(i - 1) : calls[j].res # ""
       /\ \A i, j \in dels : calls[i].key = calls[j].key => i = j
       /\ pc = "deleting" =>
            /\ Len(calls) - last = Len(page)
            /\ \A i \in 1..Len(page) :
                 /\ calls[last + i].op = "delete"
                 /\ calls[last + i].key = page[i]
                 /\ startsWith(page[i], prefix)
            /\ { c.idx : c \in inflight }
                 = { i \in (last + 1)..Len(calls) : calls[i].res = "" }
            /\ deletedCount = Cardinality(dels) - Len(page)
       /\ pc # "deleting" /\ continuationToken # << >> =>
            /\ \E o \in bucket : o.ver = "old" /\ startsWith(o.key, prefix)
            /\ deletedCount = Cardinality(dels)
            /\ deletedCount = Cardinality(PrefixLists(prefix)) * PageSize
       /\ pc # "deleting" /\ continuationToken = << >> =>
            /\ \A o \in bucket : startsWith(o.key, prefix) => o.ver = "new"
            /\ deletedCount = Cardinality(dels)
            /\ Cardinality(PrefixLists(prefix)) = PagesFor(deletedCount)

\* a prefix holding more objects than one page: two list requests, a
\* delete for each object, and the count of them all
C16_Witness ==
  /\ pc = "delete"
  /\ continuationToken = << >>
  /\ ~PrefixDeletionFailed
  /\ Lists # {}
  /\ Cardinality(PrefixLists(calls[LastList].key)) = 2
  /\ deletedCount = PageSize + 1
  /\ Cardinality(PrefixDeletes(calls[LastList].key)) = PageSize + 1

\* the requests of the log that have no answer yet
Unanswered == { i \in 1..Len(calls) : calls[i].res = "" }

\* C17: at most one put request is in flight, and a put request is sent
\* only when every put before it is answered; whenever more than one
\* request is in flight, or unanswered, they are delete requests that
\* deleteObjectsWithPrefix sent for the objects of one listing page.
C17_UploadsSequential ==
  LET open == Unanswered
  IN /\ Cardinality({ c \in inflight : c.op = "put" }) <= 1
     /\ \A c \in inflight : c.idx \in open /\ calls[c.idx].op = c.op
     /\ \A i \in open : calls[i].op \in { "put", "delete" }
     /\ \A i \in open :
          calls[i].op = "put" \/ calls[i].by = "uploadDist" =>
            open = { i } /\ i = Len(calls) /\ inflight # {}
     /\ \A j \in open : \A i \in (j + 1)..Len(calls) : calls[i].op # "put"
     /\ Cardinality(open) > 1 =>
          /\ Lists # {}
          /\ \A i \in open :
               /\ calls[i].op = "delete"
               /\ calls[i].by = "deleteObjectsWithPrefix"
               /\ i > LastList
               /\ i - LastList <= Len(listResponse.Contents)
               /\ calls[i].key = listResponse.Contents[i - LastList]

\* the second put is in flight, the first is answered, and earlier a page
\* of two deletes was in flight together
C17_Witness ==
  LET puts == CallsOf("put")
  IN /\ pc = "putting"
     /\ Len(puts) = 2
     /\ puts[1].res # ""
     /\ Cardinality(inflight) = 1
     /\ Unanswered = { Len(calls) }
     /\ \E i \in 1..(Len(calls) - 2) :
          /\ calls[i].op = "list"
          /\ calls[i + 1].op = "delete"
          /\ calls[i + 2].op = "delete"

\* the monitor-progress argument is given and reads 'false' in some
\* mixture of upper and lower case
SameLetter(c, l) ==
  c = l \/ \E k \in 1..Len(LowerCase) : LowerCase[k] = l /\ UpperCase[k] = c
FlagArgumentIsFalse ==
  /\ Len(args) >= 7
  /\ Len(args[7]) = Len(S_false)
  /\ \A k \in 1..Len(S_false) : SameLetter(args[7][k], S_false[k])

\* C18: the flag is false exactly when the monitor-progress argument
\* reads 'false' in any letter case, and true when the argument is absent
\* or anything else; with the flag false no status check is ever sent;
\* with the flag true none is sent when create-invalidation answered
\* 'Completed' (or threw), and monitoring follows any other answer.
C18_PollingOnlyWhenFlagSet ==
  LET g == Checks
  IN /\ pc # "main" /\ Len(args) >= 3 => monitorProgress = ~FlagArgumentIsFalse
     /\ FlagArgumentIsFalse => g = << >>
     /\ g # << >> => monitorProgress
     /\ \A i \in Creates :
          /\ calls[i].res \in { "Completed", "error" } =>
               g = << >> /\ i = Len(calls) /\ pc = "exited"
          /\ ~monitorProgress => i = Len(calls) /\ pc = "exited" /\ exitCode = 0
          /\ monitorProgress /\ calls[i].res \notin { "Completed", "error" } =>
               g # << >> \/ pc = "monitor"

\* monitor-progress is 'FALSE': the invalidation was created, answered
\* 'InProgress', and the run exited without a status check
C18_Witness ==
  /\ FlagArgumentIsFalse
  /\ ~monitorProgress
  /\ Creates # {}
  /\ calls[Len(calls)].op = "createInvalidation"
  /\ calls[Len(calls)].res = "InProgress"
  /\ pc = "exited"
  /\ exitCode = 0

\* the keys of the objects that deleteObjectsWithPrefix has deleted: each
\* was listed, so it was in the bucket before the run
DeletedKeys ==
  { calls[i].key : i \in { j \in 1..Len(calls) :
                             /\ calls[j].op = "delete"
                             /\ calls[j].by = "deleteObjectsWithPrefix"
                             /\ calls[j].res = "ok" } }

\* the keys the files of dist are uploaded to
LocalKeys == { Root \o RelativePath(f) : f \in FilePaths(dist, << >>) }

\* the objects that were there before the run, have a file in dist, and
\* are not in the bucket now
MissingKeys == (DeletedKeys \cap LocalKeys) \ Keys(bucket)

\* C19: there is no atomic swap.  When the upload phase begins every
\* object the delete phase deleted is absent; a deleted object is back
\* only once this run's own put to that very key has succeeded (no
\* staging prefix); and when a deletion error has stopped the run,
\* nothing has been put, so whatever was deleted stays absent.
C19_NoAtomicSwap ==
  pc \in { "deleting", "delete", "deleteKey", "upload", "putting", "then",
           "catch" } \/ (pc = "exited" /\ exitCode = 1) =>
    LET deleted == DeletedKeys
    IN /\ \A k \in deleted \cap Keys(bucket) :
            /\ Obj(k, "new") \in bucket
            /\ Obj(k, "old") \notin bucket
            /\ \E i \in 1..Len(calls) :
                 calls[i].op = "put" /\ calls[i].key = k /\ calls[i].res = "ok"
       /\ pc \in { "delete", "deleting", "deleteKey" }
            \/ (pc = "upload" /\ uploadedCount = 0) =>
              deleted \cap Keys(bucket) = {}
       /\ PrefixDeletionFailed =>
            /\ deleted \cap Keys(bucket) = {}
            /\ \A o \in bucket : o.ver = "old"
            /\ MissingKeys = deleted \cap LocalKeys

\* a delete of the second page failed and the run exited with 1: the
\* object of the first page that has a file in dist is gone and stays so
C19_Witness ==
  /\ pc = "exited"
  /\ exitCode = 1
  /\ error = "delete failed"
  /\ Root \o S_astro \o Slash \o N_js \in MissingKeys
  /\ << S_astro, N_js >> \in FilePaths(dist, << >>)

\* uploadFile is running or about to be called
InUploadFile == pc \in { "upload", "putting" }

\* C20: uploadedCount and failedCount are never negative and never
\* decrease; a step changes them only inside uploadFile, where each call
\* that finishes adds one to exactly one of them; no other step (a list
\* or delete request or its answer, create-invalidation, a status check,
\* a sleep) and no step that sends a request changes either.
C20_CountersOnlyInUploadFile ==
  [][/\ uploadedCount >= 0 /\ uploadedCount' >= uploadedCount
     /\ failedCount >= 0 /\ failedCount' >= failedCount
     /\ (uploadedCount' + failedCount') - (uploadedCount + failedCount)
          = (IF InUploadFile THEN Len(upJobs) - Len(upJobs') ELSE 0)
     /\ (~InUploadFile \/ Len(calls') > Len(calls)) =>
          UNCHANGED << uploadedCount, failedCount >>]_vars

\* a root-file delete failed, one later file could not be read and one
\* was put: the counters show one failure and one success
C20_Witness ==
  /\ pc = "upload"
  /\ uploadedCount = 1
  /\ failedCount = 1
  /\ Len(CallsOf("put")) = 1
  /\ \E i \in 1..Len(calls) :
       calls[i].op = "delete" /\ calls[i].by = "uploadDist" /\ calls[i].res = "error"
  /\ \E i \in 1..Len(calls) :
       calls[i].op = "delete" /\ calls[i].by = "deleteObjectsWithPrefix"

\* the remote prefixes of the folders at the top of dist: of the two known
\* subfolders when they are there, and of every other folder
FolderPrefixes ==
  { Root \o dist.items[i].name \o Slash :
      i \in { j \in 1..Len(dist.items) : dist.items[j].kind = "dir" } }

\* the keys of the requests that delete or write an object
TouchedKeys ==
  { calls[i].key : i \in { j \in 1..Len(calls) :
                             calls[j].op \in { "delete", "put" } } }

\* C21: every list request is for the prefix <s3-path>/<name>/ of a
\* folder at the top of dist, and every such prefix has been listed when
\* the delete phase is over; every single-key delete is for the key
\* <s3-path>/<name> of a root file; every other key deleted or written
\* lies under one of these prefixes or is one of these keys, so under
\* s3-path; a known subfolder that is not in dist has nothing listed,
\* deleted or written under its prefix.
C21_OnlyLocalPrefixesTouched ==
  dist.kind = "dir" =>
    /\ \A i \in 1..Len(calls) :
         /\ calls[i].op = "list" => calls[i].key \in FolderPrefixes
         /\ calls[i].op = "delete" /\ calls[i].by = "uploadDist" =>
              calls[i].key \in LocalRootKeys
    /\ \A k \in TouchedKeys :
         /\ UnderS3Path(k)
         /\ k \in LocalRootKeys \/ \E p \in FolderPrefixes : startsWith(k, p)
    /\ pc \in { "upload", "putting", "then" } =>
         { calls[i].key : i \in Lists } = FolderPrefixes
    /\ \A name \in { S_astro, S_category } :
         (Root \o name \o Slash) \notin FolderPrefixes =>
           /\ \A i \in Lists : calls[i].key # Root \o name \o Slash
           /\ \A k \in TouchedKeys : ~startsWith(k, Root \o name \o Slash)

\* the single-key deletes of root files that have failed, as places in
\* the log
FailedRootDeletes ==
  { i \in 1..Len(calls) :
      /\ calls[i].op = "delete"
      /\ calls[i].by = "uploadDist"
      /\ calls[i].res = "error" }

\* C22: a failed delete of a root-file key is swallowed.  Unless a prefix
\* deletion fails too, the run is never in the .catch of main and never
\* exits with 1; right after the failure the delete phase goes on with
\* the tasks that follow that key in its plan; both counters are still 0
\* when the upload phase begins; and uploadDist returns after an
\* uploadFile call for every file of its upload plan.
C22_RootDeleteFailureSwallowed ==
  LET failed == FailedRootDeletes
  IN failed # {} =>
       /\ ~PrefixDeletionFailed =>
            /\ pc \notin { "catch", "main", "uploadDist" }
            /\ error = "none"
            /\ exitCode \in { -1, 0 }
            /\ pc = "exited" <=> exitCode = 0
       /\ pc \in { "delete", "deleting", "deleteKey" } =>
            LET plan == DeletePlan(dist, s3PathArg)
                done == Len(plan) - Len(delTasks)
            IN /\ uploadedCount = 0 /\ failedCount = 0
               /\ upJobs = UploadPlan(dist, s3PathArg)
               /\ done >= 1
               /\ delTasks = SubSeq(plan, done + 1, Len(plan))
               /\ \A i \in failed :
                    \E n \in 1..done : plan[n] = KeyTask(calls[i].key)
               /\ Len(calls) \in failed =>
                    pc = "delete" /\ plan[done] = KeyTask(calls[Len(calls)].key)
       /\ pc = "then" =>
            /\ delTasks = << >> /\ upJobs = << >>
            /\ uploadedCount + failedCount = Len(UploadPlan(dist, s3PathArg))
            /\ uploadedCount = Cardinality({ i \in 1..Len(calls) :
                                   calls[i].op = "put" /\ calls[i].res = "ok" })

\* the delete of the root file failed; the img prefix was listed after it,
\* both files were uploaded and the run exited with 0
C22_Witness ==
  /\ pc = "exited"
  /\ exitCode = 0
  /\ uploadedCount = 2
  /\ failedCount = 0
  /\ \E i \in FailedRootDeletes :
       /\ calls[i].key = Root \o N_index
       /\ \E j \in (i + 1)..Len(calls) :
            calls[j].op = "list" /\ calls[j].key = Root \o N_img \o Slash
       /\ \E j \in (i + 1)..Len(calls) :
            calls[j].op = "put" /\ calls[j].key = Root \o N_index
                               /\ calls[j].res = "ok"

====
